---- MODULE Spec2Model ----
(***************************************************************************)
(* Model of milk/measures/nfoldcrossvalidation.py: foldgenerator, getfold  *)
(* and nfoldcrossvalidation.  Samples are numbered 1..N here (0..N-1 in    *)
(* the code); folds, classes and origin identifiers keep the code's        *)
(* numbering from 0.  An optional argument is <<>> when omitted (None) and *)
(* <<x>> when given.                                                       *)
(***************************************************************************)
EXTENDS Integers, Sequences, FiniteSets, TLC

VARIABLES
    op,          \* the entry point that was called
    in_labels,   \* argument labels
    in_origins,  \* argument origins (optional)
    in_nfolds,   \* argument nfolds (optional)
    in_fold,     \* argument fold of getfold
    in_retpred,  \* argument return_predictions of nfoldcrossvalidation
    pc,          \* position in the running code
    labels,      \* foldgenerator: labels after normaliselabels
    origins,     \* foldgenerator: origins after defaulting
    nfolds,      \* foldgenerator: nfolds after defaulting / reduction
    fmin,        \* foldgenerator: fmin
    fold,        \* foldgenerator: fold array (-1 = not assigned yet)
    todo,        \* foldgenerator: classes of set(labels) not yet iterated
    queue,       \* foldgenerator: rest of sorted(zip(weights, usedorigins))
    foldweight,  \* foldgenerator: foldweight of the class being processed
    nextf,       \* foldgenerator: loop variable f of the yield loop
    pairs,       \* the (train, test) pairs yielded so far, in order
    warned,      \* whether warn() was called
    err,         \* the exception that ended the call, "none" if none
    errorigin,   \* the origin named in the InconsistentOrigin message
    gf_i,        \* getfold: loop variable i (optional: unbound before the loop)
    gf_result,   \* getfold: returned pair (optional)
    cv_labels,   \* nfoldcrossvalidation: labels after normaliselabels
    predictions, \* nfoldcrossvalidation: predictions buffer (optional)
    results,     \* nfoldcrossvalidation: list of per-fold confusion matrices
    applied,     \* nfoldcrossvalidation: calls model.apply made so far
    cv_result    \* nfoldcrossvalidation: returned matrix (optional)

vars == <<op, in_labels, in_origins, in_nfolds, in_fold, in_retpred, pc,
          labels, origins, nfolds, fmin, fold, todo, queue, foldweight, nextf,
          pairs, warned, err, errorigin, gf_i, gf_result,
          cv_labels, predictions, results, applied, cv_result>>

genvars == <<labels, origins, nfolds, fmin, fold, todo, queue, foldweight,
             nextf, pairs, warned, errorigin>>
gfvars == <<gf_i, gf_result>>
cvvars == <<cv_labels, predictions, results, applied, cv_result>>
invars == <<op, in_labels, in_origins, in_nfolds, in_fold, in_retpred>>

----------------------------------------------------------------------------
\* Bounds of the model

MaxN == 4          \* longest labels sequence of the short inputs
MaxOrigin == 1     \* origin identifiers of the short inputs are 0..MaxOrigin
MaxNfolds == 3     \* largest nfolds argument of the short inputs
MaxLong == 11      \* length of the longest single-class input

LabelValues == {3, 7}              \* raw label values before normalisation
OriginIds == 0..MaxOrigin

\* nfolds = min(fmin, 10)
DefaultNfolds == 10

None == <<>>
Some(x) == <<x>>
IsNone(o) == o = <<>>
Val(o) == o[1]

----------------------------------------------------------------------------
\* Helpers standing for Python / numpy primitives

Range(s) == {s[i] : i \in DOMAIN s}

Min2(a, b) == IF a < b THEN a ELSE b

SetMin(S) == CHOOSE x \in S : \A y \in S : x <= y

\* lexicographic order of the tuples (w, orig)
PairLess(p, q) == p[1] < q[1] \/ (p[1] = q[1] /\ p[2] < q[2])

RECURSIVE SortedSet(_)
\* np.unique: the distinct values in ascending order
SortedSet(S) ==
    IF S = {} THEN <<>>
    ELSE LET m == SetMin(S) IN <<m>> \o SortedSet(S \ {m})

RECURSIVE Insert(_, _)
Insert(p, s) ==
    IF s = <<>> THEN <<p>>
    ELSE IF PairLess(s[1], p) THEN <<s[1]>> \o Insert(p, Tail(s))
    ELSE <<p>> \o s

RECURSIVE sorted(_)
\* sorted(...) of a list of (w, orig) tuples
sorted(s) == IF s = <<>> THEN <<>> ELSE Insert(s[1], sorted(Tail(s)))

\* normaliselabels: dense codes 0..K-1, by rank of the label value
normaliselabels(l) ==
    [i \in DOMAIN l |-> Cardinality({v \in Range(l) : v < l[i]})]

\* np.arange(len(labels)): sample i (numbered from 1 here) has origin i-1
arange(n) == [i \in 1..n |-> i - 1]

\* np.zeros(nfolds, int), indexed by fold 0..nfolds-1
zeros(n) == [g \in 0..(n - 1) |-> 0]

\* the first index of the greatest value
argmax(fw) ==
    CHOOSE g \in DOMAIN fw :
        /\ \A h \in DOMAIN fw : fw[g] >= fw[h]
        /\ \A h \in DOMAIN fw : h < g => fw[h] < fw[g]

\* np.argmin: the first index of the least value
argmin(fw) ==
    CHOOSE g \in DOMAIN fw :
        /\ \A h \in DOMAIN fw : fw[g] <= fw[h]
        /\ \A h \in DOMAIN fw : h < g => fw[h] > fw[g]

----------------------------------------------------------------------------
\* foldgenerator

\* set(origins[labels == lab])
OriginsOfClass(labs, orgs, lab) ==
    {orgs[i] : i \in {j \in DOMAIN labs : labs[j] = lab}}

\* fmin taken as the greatest number of distinct origins of a class
FminOf_Largest(labs, orgs) ==
    LET counts == {Cardinality(OriginsOfClass(labs, orgs, lab)) : lab \in Range(labs)}
    IN  Min2(Len(labs), CHOOSE m \in counts : \A n \in counts : n <= m)

\* fmin taken over the number of samples of each class, not of its origins
FminOf_SampleCount(labs, orgs) ==
    SetMin({Len(labs)} \cup
           {Cardinality({j \in DOMAIN labs : labs[j] = lab}) : lab \in Range(labs)})

\* lines 44-47: fmin
FminOf(labs, orgs) ==
    SetMin({Len(labs)} \cup
           {Cardinality(OriginsOfClass(labs, orgs, lab)) : lab \in Range(labs)})

\* the number of folds without the reduction to fmin
ResolveNfolds_NoReduction(nf, fm) ==
    IF IsNone(nf) THEN Min2(fm, DefaultNfolds) ELSE Val(nf)

\* lines 58-63: the number of folds used
ResolveNfolds(nf, fm) ==
    IF IsNone(nf) THEN Min2(fm, DefaultNfolds)
    ELSE IF Val(nf) > fm THEN fm
    ELSE Val(nf)

\* lines 60-62: whether the reduction warning is emitted
WarnsReduction(nf, fm) == ~IsNone(nf) /\ Val(nf) > fm

\* np.sum(origins == orig)
Weight(orgs, orig) == Cardinality({i \in DOMAIN orgs : orgs[i] = orig})

\* lines 67-70: sorted(zip(weights, usedorigins))
ClassQueue(labs, orgs, lab) ==
    LET usedorigins == SortedSet(OriginsOfClass(labs, orgs, lab))
    IN  sorted([k \in DOMAIN usedorigins |->
                  <<Weight(orgs, usedorigins[k]), usedorigins[k]>>])

\* the test of line 72 with > 0 in place of > -1
AlreadyAssigned_Positive(fo, orgs, orig) ==
    \E i \in DOMAIN fo : orgs[i] = orig /\ fo[i] > 0

\* line 72: np.any(fold[origins == orig] > -1)
AlreadyAssigned(fo, orgs, orig) ==
    \E i \in DOMAIN fo : orgs[i] = orig /\ fo[i] > -1

\* the assignment of line 75 reaching only the first sample of the origin
AssignFold_FirstOnly(fo, orgs, orig, f) ==
    LET first == SetMin({i \in DOMAIN fo : orgs[i] = orig})
    IN  [i \in DOMAIN fo |-> IF i = first THEN f ELSE fo[i]]

\* line 75: fold[origins == orig] = f
AssignFold(fo, orgs, orig, f) ==
    [i \in DOMAIN fo |-> IF orgs[i] = orig THEN f ELSE fo[i]]

\* the train mask taken as the later folds only
TrainMask_Later(fo, f) == [i \in DOMAIN fo |-> fo[i] > f]

\* line 79: (fold != f)
TrainMask(fo, f) == [i \in DOMAIN fo |-> fo[i] # f]

\* line 79: (fold == f)
TestMask(fo, f) == [i \in DOMAIN fo |-> fo[i] = f]

\* where control goes when the generator raises
Raise(e) ==
    /\ err' = e
    /\ pc' = "error"

\* the labels argument foldgenerator receives: the caller's own labels, or
\* (line 160) the labels nfoldcrossvalidation has normalised already
ArgLabels == IF op = "nfoldcrossvalidation" THEN cv_labels ELSE in_labels

\* lines 36-63: from the first next() up to the assignment loop
GenBegin ==
    /\ pc = "gen_start"
    /\ LET labs == normaliselabels(ArgLabels)
           orgs == IF IsNone(in_origins) THEN arange(Len(labs))
                   ELSE Val(in_origins)
           fm   == FminOf(labs, orgs)
       IN  IF ~IsNone(in_origins) /\ Len(Val(in_origins)) # Len(labs)
           THEN /\ Raise("SizeMismatch")
                /\ labels' = labs
                /\ UNCHANGED <<origins, nfolds, fmin, fold, todo, warned>>
           ELSE IF fm = 1
           THEN /\ Raise("InsufficientOrigins")
                /\ labels' = labs
                /\ origins' = orgs
                /\ fmin' = fm
                /\ UNCHANGED <<nfolds, fold, todo, warned>>
           ELSE /\ labels' = labs
                /\ origins' = orgs
                /\ fmin' = fm
                /\ fold' = [i \in DOMAIN labs |-> -1]
                /\ nfolds' = ResolveNfolds(in_nfolds, fm)
                /\ warned' = WarnsReduction(in_nfolds, fm)
                /\ todo' = Range(labs)
                /\ pc' = "gen_class"
                /\ UNCHANGED err
    /\ UNCHANGED <<queue, foldweight, nextf, pairs, errorigin>>
    /\ UNCHANGED <<invars, gfvars, cvvars>>

\* lines 65-70: the next class of set(labels); the iteration order of a set
\* is not fixed by the language, so any remaining class may come next
GenClass ==
    /\ pc = "gen_class"
    /\ \E lab \in todo :
          /\ todo' = todo \ {lab}
          /\ queue' = ClassQueue(labels, origins, lab)
          /\ IF nfolds < 0
             THEN /\ Raise("NumpyError")    \* np.zeros of a negative size
                  /\ UNCHANGED foldweight
             ELSE /\ foldweight' = zeros(nfolds)
                  /\ pc' = "gen_origin"
                  /\ UNCHANGED err
    /\ UNCHANGED <<labels, origins, nfolds, fmin, fold, nextf, pairs, warned,
                   errorigin>>
    /\ UNCHANGED <<invars, gfvars, cvvars>>

\* lines 70-76: one iteration of the loop over the sorted origins
GenOrigin ==
    /\ pc = "gen_origin"
    /\ queue # <<>>
    /\ LET w    == queue[1][1]
           orig == queue[1][2]
       IN  IF DOMAIN foldweight = {}
           THEN /\ Raise("NumpyError")      \* np.argmin of an empty array
                /\ UNCHANGED <<fold, foldweight, queue, nextf, errorigin>>
           ELSE IF AlreadyAssigned(fold, origins, orig)
           THEN /\ Raise("InconsistentOrigin")
                /\ errorigin' = Some(orig)
                /\ UNCHANGED <<fold, foldweight, queue, nextf>>
           ELSE LET f == argmin(foldweight) IN
                /\ fold' = AssignFold(fold, origins, orig, f)
                /\ foldweight' = [foldweight EXCEPT ![f] = @ + w]
                /\ queue' = Tail(queue)
                /\ IF Tail(queue) # <<>> THEN pc' = "gen_origin" /\ UNCHANGED nextf
                   ELSE IF todo # {} THEN pc' = "gen_class" /\ UNCHANGED nextf
                   ELSE pc' = "gen_yield" /\ nextf' = 0
                /\ UNCHANGED <<err, errorigin>>
    /\ UNCHANGED <<labels, origins, nfolds, fmin, todo, pairs, warned>>
    /\ UNCHANGED <<invars, gfvars, cvvars>>

\* lines 78-79: yield the pair of fold f; control passes to the consumer
GenYield ==
    /\ pc = "gen_yield"
    /\ nextf < nfolds
    /\ pairs' = Append(pairs, <<TrainMask(fold, nextf), TestMask(fold, nextf)>>)
    /\ nextf' = nextf + 1
    /\ pc' = CASE op = "getfold" -> "gf_loop"
               [] op = "nfoldcrossvalidation" -> "cv_body"
               [] OTHER -> "gen_yield"
    /\ UNCHANGED <<labels, origins, nfolds, fmin, fold, todo, queue,
                   foldweight, warned, err, errorigin>>
    /\ UNCHANGED <<invars, gfvars, cvvars>>

\* line 78: the yield loop ends and the generator is exhausted
GenReturn ==
    /\ pc = "gen_yield"
    /\ nextf >= nfolds
    /\ pc' = CASE op = "getfold" -> "gf_after"
               [] op = "nfoldcrossvalidation" -> "cv_reduce"
               [] OTHER -> "done"
    /\ UNCHANGED <<genvars, err>>
    /\ UNCHANGED <<invars, gfvars, cvvars>>

----------------------------------------------------------------------------
\* getfold

\* line 98: nfolds < fold.  The module is Python 2 code (xrange, reduce), where
\* None orders before every number, so the test is true when nfolds is omitted
PyLess(nf, k) == IF IsNone(nf) THEN TRUE ELSE Val(nf) < k

\* the test of line 101 with >= in place of ==
FoldMatches_AtLeast(i, k) == i >= k

\* line 101: i == fold
FoldMatches(i, k) == i = k

\* lines 98-99
GetfoldBegin ==
    /\ pc = "gf_start"
    /\ IF PyLess(in_nfolds, in_fold)
       THEN Raise("InvalidFoldIndex")
       ELSE pc' = "gen_start" /\ UNCHANGED err
    /\ UNCHANGED <<invars, genvars, gfvars, cvvars>>

\* lines 100-102: the loop body, run on the pair just yielded
GetfoldLoop ==
    /\ pc = "gf_loop"
    /\ LET i == Len(pairs) - 1 IN
          /\ gf_i' = Some(i)
          /\ IF FoldMatches(i, in_fold)
             THEN /\ gf_result' = Some(pairs[Len(pairs)])
                  /\ pc' = "done"
             ELSE /\ pc' = "gen_yield"
                  /\ UNCHANGED gf_result
    /\ UNCHANGED <<invars, genvars, cvvars, err>>

\* line 103: the generator ended without reaching fold
GetfoldAfter ==
    /\ pc = "gf_after"
    /\ IF IsNone(gf_i)
       THEN Raise("UnboundLocalError")     \* %-formatting an unbound i
       ELSE Raise("InvalidFoldIndex")
    /\ UNCHANGED <<invars, genvars, gfvars, cvvars>>

----------------------------------------------------------------------------
\* nfoldcrossvalidation

\* labels.max() + 1
NClasses(labs) == Cardinality(Range(labs))

\* the results of the last fold alone, without the sum over the folds
SumResults_LastOnly(rs) == rs[Len(rs)]

\* the indices selected by a boolean mask, ascending
Selected(mask) == SortedSet({i \in DOMAIN mask : mask[i]})

\* a[mask]
Take(a, mask) == LET idx == Selected(mask) IN [k \in DOMAIN idx |-> a[idx[k]]]

\* measure(real, predicted): the K x K table of (true class, predicted class)
\* counts
confusion_matrix(real, predicted, K) ==
    [c \in (0..(K - 1)) \X (0..(K - 1)) |->
        Cardinality({k \in DOMAIN real : real[k] = c[1] /\ predicted[k] = c[2]})]

\* operator.add on two matrices
MatAdd(a, b) == [c \in DOMAIN a |-> a[c] + b[c]]

RECURSIVE ReduceAdd(_)
\* the left fold of operator.add over a non-empty list
ReduceAdd(rs) ==
    IF Len(rs) = 1 THEN rs[1]
    ELSE MatAdd(ReduceAdd(SubSeq(rs, 1, Len(rs) - 1)), rs[Len(rs)])

\* line 167: reduce(operator.add, results)
SumResults(rs) == ReduceAdd(rs)

\* line 164: predictions[testingset] = cur_predictions
StorePredictions(buf, testingset, cur) ==
    LET idx == Selected(testingset) IN
    [i \in DOMAIN buf |->
        IF testingset[i] THEN cur[CHOOSE k \in DOMAIN idx : idx[k] = i]
        ELSE buf[i]]

\* lines 145-158
CVBegin ==
    /\ pc = "cv_start"
    /\ \E featlen \in {Len(in_labels), Len(in_labels) + 1} :
          IF featlen # Len(in_labels)
          THEN /\ Raise("SizeMismatch")
               /\ UNCHANGED <<cv_labels, predictions>>
          ELSE /\ cv_labels' = normaliselabels(in_labels)
               /\ predictions' = IF in_retpred
                                 THEN Some([i \in DOMAIN in_labels |-> -1])
                                 ELSE None
               /\ pc' = "gen_start"
               /\ UNCHANGED err
    /\ UNCHANGED <<results, applied, cv_result>>
    /\ UNCHANGED <<invars, genvars, gfvars>>

\* lines 161-165: the loop body, run on the pair just yielded.  The model
\* returned by classifier.train is identified by the training mask it was
\* given; model.apply may answer any class for each testing sample
CVBody ==
    /\ pc = "cv_body"
    /\ LET trainingset == pairs[Len(pairs)][1]
           testingset  == pairs[Len(pairs)][2]
           idx         == Selected(testingset)
       IN  \E cur \in [DOMAIN idx -> 0..(NClasses(cv_labels) - 1)] :
              /\ applied' = applied \o
                    [k \in DOMAIN idx |-> <<trainingset, idx[k], cur[k]>>]
              /\ predictions' =
                    IF in_retpred
                    THEN Some(StorePredictions(Val(predictions), testingset, cur))
                    ELSE predictions
              /\ results' = Append(results,
                    confusion_matrix(Take(cv_labels, testingset), cur,
                                     NClasses(cv_labels)))
    /\ pc' = "gen_yield"
    /\ UNCHANGED <<cv_labels, cv_result>>
    /\ UNCHANGED <<invars, genvars, gfvars, err>>

\* lines 167-170
CVReduce ==
    /\ pc = "cv_reduce"
    /\ IF results = <<>>
       THEN Raise("TypeError") /\ UNCHANGED cv_result   \* reduce of an empty list
       ELSE /\ cv_result' = Some(SumResults(results))
            /\ pc' = "done"
            /\ UNCHANGED err
    /\ UNCHANGED <<cv_labels, predictions, results, applied>>
    /\ UNCHANGED <<invars, genvars, gfvars>>

----------------------------------------------------------------------------
\* Inputs and specifications

\* every short input: labels over LabelValues, origins omitted, of every
\* value over OriginIds, or one element too long
ShortLabels == UNION {[1..n -> LabelValues] : n \in 1..MaxN}

ShortOrigins(l) ==
    {None} \cup {Some(o) : o \in [1..Len(l) -> OriginIds]}
           \cup {Some([i \in 1..(Len(l) + 1) |-> 0])}

ShortInputs == UNION {{<<l, o>> : o \in ShortOrigins(l)} : l \in ShortLabels}

\* single-class inputs long enough for the default of 10 folds to apply
LongInputs == {<<[i \in 1..n |-> 3], None>> : n \in DefaultNfolds..MaxLong}

\* further inputs: two classes of three samples, with default origins and with
\* replicates; an origin on two classes beside origins on one; origins of
\* unequal weight whose identifiers are not in sample order
ExampleInputs ==
    { <<<<3, 3, 3, 7, 7, 7>>, None>>,
      <<<<3, 3, 3, 7, 7, 7>>, Some(<<0, 0, 1, 2, 3, 3>>)>>,
      <<<<3, 3, 7, 7>>, Some(<<0, 1, 1, 2>>)>>,
      <<<<7, 7, 7, 7>>, Some(<<5, 2, 9, 9>>)>> }

IsShortInput(l, o) == <<l, o>> \in ShortInputs

NfoldsArgs(l, o) ==
    IF IsShortInput(l, o)
    THEN {None} \cup {Some(n) : n \in (-1)..MaxNfolds} \cup {Some(DefaultNfolds)}
    ELSE {None, Some(1), Some(2), Some(3), Some(DefaultNfolds), Some(MaxLong + 1)}

FoldArgs(l, o) ==
    IF IsShortInput(l, o)
    THEN (-1)..(MaxNfolds + 1)
    ELSE {-1, 0, 1, 2, 3, DefaultNfolds - 1, DefaultNfolds}

InitLocals ==
    /\ labels = <<>>
    /\ origins = <<>>
    /\ nfolds = 0
    /\ fmin = 0
    /\ fold = <<>>
    /\ todo = {}
    /\ queue = <<>>
    /\ foldweight = <<>>
    /\ nextf = 0
    /\ pairs = <<>>
    /\ warned = FALSE
    /\ err = "none"
    /\ errorigin = None
    /\ gf_i = None
    /\ gf_result = None
    /\ cv_labels = <<>>
    /\ predictions = None
    /\ results = <<>>
    /\ applied = <<>>
    /\ cv_result = None

InitArgs ==
    /\ \E inp \in ShortInputs \cup LongInputs \cup ExampleInputs :
          in_labels = inp[1] /\ in_origins = inp[2]
    /\ in_nfolds \in NfoldsArgs(in_labels, in_origins)

\* a caller iterating foldgenerator(labels, nfolds, origins) to the end
Init ==
    /\ op = "foldgenerator"
    /\ pc = "gen_start"
    /\ InitArgs
    /\ in_fold = 0
    /\ in_retpred = FALSE
    /\ InitLocals

Next == GenBegin \/ GenClass \/ GenOrigin \/ GenYield \/ GenReturn

Spec == Init /\ [][Next]_vars

\* a call getfold(labels, fold, nfolds, origins)
InitGet ==
    /\ op = "getfold"
    /\ pc = "gf_start"
    /\ InitArgs
    /\ in_fold \in FoldArgs(in_labels, in_origins)
    /\ in_retpred = FALSE
    /\ InitLocals

NextGet ==
    \/ GetfoldBegin \/ GetfoldLoop \/ GetfoldAfter
    \/ GenBegin \/ GenClass \/ GenOrigin \/ GenYield \/ GenReturn

SpecGet == InitGet /\ [][NextGet]_vars

\* a call nfoldcrossvalidation(features, labels, nfolds, classifier, origins,
\* return_predictions)
InitCV ==
    /\ op = "nfoldcrossvalidation"
    /\ pc = "cv_start"
    /\ InitArgs
    /\ in_fold = 0
    /\ in_retpred \in BOOLEAN
    /\ InitLocals

NextCV ==
    \/ CVBegin \/ CVBody \/ CVReduce
    \/ GenBegin \/ GenClass \/ GenOrigin \/ GenYield \/ GenReturn

SpecCV == InitCV /\ [][NextCV]_vars

----------------------------------------------------------------------------
\* Vocabulary of the properties, stated on the arguments of the call

\* the class of each sample
InLabels == normaliselabels(in_labels)

\* origins has the length of labels (or is omitted)
LenOK == IsNone(in_origins) \/ Len(Val(in_origins)) = Len(in_labels)

\* the origin of each sample
InOrigins ==
    IF IsNone(in_origins) THEN [i \in DOMAIN in_labels |-> i - 1]
    ELSE Val(in_origins)

Samples == DOMAIN in_labels

Classes == {InLabels[i] : i \in Samples}

SamplesOf(c) == {i \in Samples : InLabels[i] = c}

DistinctOrigins(c) == {InOrigins[i] : i \in SamplesOf(c)}

\* the least number of distinct origins any class has
MinDistinct ==
    CHOOSE m \in {Cardinality(DistinctOrigins(c)) : c \in Classes} :
        \A c \in Classes : m <= Cardinality(DistinctOrigins(c))

\* origin o appears on samples of two different classes
Spans(o) ==
    \E i, j \in Samples :
        InOrigins[i] = o /\ InOrigins[j] = o /\ InLabels[i] # InLabels[j]

SomeOriginSpans == \E i \in Samples : Spans(InOrigins[i])

NfoldsOmittedOrPositive == IsNone(in_nfolds) \/ Val(in_nfolds) >= 1

\* an input foldgenerator accepts
ValidInput ==
    LenOK /\ MinDistinct >= 2 /\ ~SomeOriginSpans /\ NfoldsOmittedOrPositive

\* the number of folds the documentation promises for a valid input
Realized ==
    IF IsNone(in_nfolds) THEN (IF MinDistinct < 10 THEN MinDistinct ELSE 10)
    ELSE IF Val(in_nfolds) <= MinDistinct THEN Val(in_nfolds)
    ELSE MinDistinct

Terminal == pc \in {"done", "error"}

Completed == pc = "done"

Folds == 0..(Len(pairs) - 1)

Train(k) == pairs[k + 1][1]

Test(k) == pairs[k + 1][2]

\* the number of samples of class c that are tested in fold k
ClassCount(c, k) == Cardinality({i \in SamplesOf(c) : Test(k)[i]})

----------------------------------------------------------------------------
\* Properties of foldgenerator (specification Spec)

\* C1: in every pair yielded, two samples that share an origin are on the same
\* side: both in the test mask or both in the train mask, never one in each.
C1_OriginsNeverSplit ==
    \A k \in Folds : \A i, j \in DOMAIN origins :
        origins[i] = origins[j] =>
            /\ Test(k)[i] = Test(k)[j]
            /\ Train(k)[i] = Train(k)[j]
            /\ Test(k)[i] # Train(k)[i]

C1_Witness ==
    /\ Completed
    /\ Len(pairs) >= 2
    /\ \E i, j \in Samples : i # j /\ InOrigins[i] = InOrigins[j]
    /\ \E i, j \in Samples : InOrigins[i] # InOrigins[j] /\ InLabels[i] = InLabels[j]

\* C2: once the generator has run to its end, the pairs form a partition:
\* every sample is in exactly one test mask and in the train mask of every
\* other pair, train and test are complements within each pair, and no sample
\* keeps the fold value -1.
C2_Partition ==
    Completed =>
        /\ \A i \in Samples :
              /\ Cardinality({k \in Folds : Test(k)[i]}) = 1
              /\ \A k \in Folds : Train(k)[i] = ~Test(k)[i]
              /\ fold[i] # -1
              /\ fold[i] \in Folds
        /\ \A k \in Folds :
              DOMAIN Train(k) = Samples /\ DOMAIN Test(k) = Samples

C2_Witness ==
    /\ Completed
    /\ Len(pairs) = 3
    /\ Cardinality(Classes) = 1
    /\ ~IsNone(in_origins)

\* C3: when every class has at least two distinct origins (and the input is
\* one foldgenerator accepts), exactly Realized pairs are yielded, pair k being
\* the one of fold k: min(10, fmin) when nfolds is omitted, nfolds when
\* 1 <= nfolds <= fmin, fmin with a warning and no error when nfolds > fmin.
C3_FoldCount ==
    (Terminal /\ ValidInput) =>
        /\ Completed
        /\ err = "none"
        /\ Len(pairs) = Realized
        /\ \A k \in Folds : \A i \in Samples :
              Test(k)[i] = (fold[i] = k) /\ Train(k)[i] = (fold[i] # k)
        /\ warned = (~IsNone(in_nfolds) /\ Val(in_nfolds) > MinDistinct)

\* nfolds = 10 asked of data whose smallest class has two origins
C3_Witness ==
    /\ Completed
    /\ in_nfolds = Some(10)
    /\ MinDistinct = 2
    /\ Len(pairs) = 2
    /\ warned

\* C4: when the class with the fewest distinct origins has exactly one, the
\* call fails with InsufficientOrigins whatever nfolds is, and nothing is
\* yielded before it fails.
C4_SingleOriginClassFails ==
    (LenOK /\ MinDistinct = 1) =>
        /\ pairs = <<>>
        /\ pc \in {"gen_start", "error"}
        /\ pc = "error" => err = "InsufficientOrigins"

C4_Witness ==
    /\ pc = "error"
    /\ err = "InsufficientOrigins"
    /\ MinDistinct = 1
    /\ Cardinality(Classes) = 2
    /\ ~IsNone(in_nfolds)
    /\ Val(in_nfolds) = 2

\* C5 as stated: whenever an origin appears on samples of two classes, the call
\* fails with InconsistentOrigin, also when some class has one distinct origin.
C5_AsStated ==
    (Terminal /\ LenOK /\ SomeOriginSpans) =>
        /\ err = "InconsistentOrigin"
        /\ pairs = <<>>

\* C5, amended: whenever an origin appears on samples of two classes, every
\* class has at least two distinct origins and nfolds is omitted or at least
\* 1, the call fails with InconsistentOrigin, the origin it names is one
\* that spans two classes, and nothing is yielded.
C5_SpanningOriginFails ==
    (LenOK /\ SomeOriginSpans /\ MinDistinct >= 2 /\ NfoldsOmittedOrPositive) =>
        /\ pairs = <<>>
        /\ pc # "done"
        /\ pc = "error" =>
              /\ err = "InconsistentOrigin"
              /\ ~IsNone(errorigin)
              /\ Spans(Val(errorigin))

C5_Witness ==
    /\ pc = "error"
    /\ err = "InconsistentOrigin"
    /\ MinDistinct >= 2
    /\ Spans(Val(errorigin))
    /\ \E i \in Samples : fold[i] > -1 /\ ~Spans(InOrigins[i])

\* the number of samples that carry origin o
OriginWeight(o) == Cardinality({i \in Samples : InOrigins[i] = o})

\* origin o comes before origin u in ascending (weight, origin) order
TakenBefore(o, u) ==
    \/ OriginWeight(o) < OriginWeight(u)
    \/ OriginWeight(o) = OriginWeight(u) /\ o < u

\* the weight of the heaviest origin of class c
HeaviestOrigin(c) ==
    CHOOSE w \in {OriginWeight(o) : o \in DistinctOrigins(c)} :
        \A o \in DistinctOrigins(c) : OriginWeight(o) <= w

\* the samples of class c that fold array fo puts in fold g
ClassWeightIn(fo, c, g) == Cardinality({j \in SamplesOf(c) : fo[j] = g})

\* one origin is given its fold: it is the least (weight, origin) among the
\* origins of its class still without a fold, and its fold is the first of
\* those holding the least weight of that class
C9_GreedyStep ==
    (ValidInput /\ pc = "gen_origin" /\ fold' # fold) =>
        \E i \in Samples :
            LET o == InOrigins[i]
                c == InLabels[i]
                f == fold'[i]
                unassigned == {InOrigins[j] : j \in {k \in SamplesOf(c) : fold[k] = -1}}
            IN  /\ fold[i] = -1
                /\ \A j \in Samples :
                      fold'[j] = IF InOrigins[j] = o THEN f ELSE fold[j]
                /\ \A u \in unassigned \ {o} : TakenBefore(o, u)
                /\ f \in 0..(nfolds - 1)
                /\ \A g \in 0..(nfolds - 1) :
                      /\ ClassWeightIn(fold, c, f) <= ClassWeightIn(fold, c, g)
                      /\ g < f => ClassWeightIn(fold, c, g) > ClassWeightIn(fold, c, f)

\* the resulting balance of every class over the folds
C9_Balance ==
    Completed =>
        /\ \A c \in Classes : \A g, h \in Folds :
              /\ ClassCount(c, g) - ClassCount(c, h) <= HeaviestOrigin(c)
              /\ IsNone(in_origins) => ClassCount(c, g) - ClassCount(c, h) <= 1
              /\ (HeaviestOrigin(c) = 1
                    /\ Cardinality(SamplesOf(c)) % Len(pairs) = 0)
                 => ClassCount(c, g) = ClassCount(c, h)
        /\ (InLabels = <<0, 0, 0, 1, 1, 1>> /\ IsNone(in_origins)
              /\ in_nfolds = Some(3))
           => /\ Len(pairs) = 3
              /\ \A k \in Folds :
                    /\ Cardinality({i \in Samples : Test(k)[i]}) = 2
                    /\ \A c \in Classes : ClassCount(c, k) = 1

\* C9: within each class the origins are taken in ascending (weight, origin)
\* order, each going to the first fold with the least accumulated weight of
\* the class; so the per-fold counts of a class differ by at most the weight
\* of its heaviest origin, by at most 1 with default origins, and not at all
\* when all weights are 1 and the class size is a multiple of the fold count.
C9_GreedyBalanced == []C9_Balance /\ [][C9_GreedyStep]_vars

\* origins of different weights in one class, spread over two folds
C9_Witness ==
    /\ Completed
    /\ Len(pairs) = 2
    /\ \E c \in Classes :
          /\ HeaviestOrigin(c) = 2
          /\ Cardinality(DistinctOrigins(c)) = 3
          /\ \E g, h \in Folds : ClassCount(c, g) - ClassCount(c, h) = 2

\* C10: once the generator has run to its end, every test mask holds a sample
\* of every class; with two folds or more every train mask does too; a train
\* mask is empty exactly when there is a single fold.
C10_EveryClassInEveryFold ==
    Completed =>
        /\ Len(pairs) >= 1
        /\ \A k \in Folds : \A c \in Classes : ClassCount(c, k) >= 1
        /\ Len(pairs) >= 2 =>
              \A k \in Folds : \A c \in Classes :
                  \E i \in SamplesOf(c) : Train(k)[i]
        /\ (\E k \in Folds : \A i \in Samples : ~Train(k)[i]) <=> Len(pairs) = 1

C10_Witness ==
    /\ Completed
    /\ Cardinality(Classes) = 2
    /\ Len(pairs) = 2
    /\ in_nfolds = Some(3)
    /\ ~IsNone(in_origins)

----------------------------------------------------------------------------
\* Properties of getfold (specification SpecGet)

\* the call ended by returning a pair
Returned == pc = "done" /\ ~IsNone(gf_result)

\* the call ended with the error of an index that cannot be produced
FailedInvalidFoldIndex ==
    pc = "error" /\ err = "InvalidFoldIndex" /\ IsNone(gf_result)

\* C6: getfold fails with InvalidFoldIndex and returns nothing for every fold
\* above nfolds, and, on an input foldgenerator accepts, for every fold at or
\* above the realized fold count and every negative fold; it returns a pair
\* only for 0 <= fold < realized fold count.
C6_InvalidFoldIndex ==
    /\ (Terminal /\ ~IsNone(in_nfolds) /\ in_fold > Val(in_nfolds))
          => FailedInvalidFoldIndex
    /\ (Terminal /\ ValidInput /\ (in_fold >= Realized \/ in_fold < 0))
          => FailedInvalidFoldIndex
    /\ ~IsNone(gf_result)
          => ValidInput /\ 0 <= in_fold /\ in_fold < Realized

\* fold 2 of 3 asked of data that supports only 2 folds
C6_Witness ==
    /\ FailedInvalidFoldIndex
    /\ ValidInput
    /\ in_nfolds = Some(3)
    /\ Realized = 2
    /\ in_fold = 2
    /\ Len(pairs) = 2

\* C7: for every valid input and every k with 0 <= k < realized fold count,
\* getfold returns the pair foldgenerator yields at position k, both when
\* nfolds is given and when it is omitted.
C7_SameAsGenerator ==
    (Terminal /\ ValidInput /\ 0 <= in_fold /\ in_fold < Realized) =>
        /\ Returned
        /\ Len(pairs) = in_fold + 1
        /\ Val(gf_result) = pairs[in_fold + 1]
        /\ \A i \in Samples :
              Val(gf_result)[2][i] = (fold[i] = in_fold)

----------------------------------------------------------------------------
\* Properties of nfoldcrossvalidation (specification SpecCV)

\* the calls of model.apply made on sample i
ScoresOf(i) == {k \in DOMAIN applied : applied[k][2] = i}

\* the prediction sample i received while held out
HeldOutPrediction(i) == applied[CHOOSE k \in ScoresOf(i) : TRUE][3]

\* C8: in a successful run every sample is scored exactly once, by the model
\* trained on the pair in which the sample and every sample of its origin
\* are tested and not trained on; entry [a][b] of the returned matrix counts
\* the samples of class a whose held-out prediction is b, the entries total
\* N, and the predictions buffer holds those predictions, none left at -1.
C8_HeldOutScoring ==
    (op = "nfoldcrossvalidation" /\ Completed) =>
        /\ \A i \in Samples :
              /\ Cardinality(ScoresOf(i)) = 1
              /\ \A k \in ScoresOf(i) :
                    /\ \E q \in Folds : Train(q) = applied[k][1] /\ Test(q)[i]
                    /\ \A j \in Samples :
                          InOrigins[j] = InOrigins[i] => ~applied[k][1][j]
        /\ ~IsNone(cv_result)
        /\ DOMAIN Val(cv_result) = Classes \X Classes
        /\ \A a, b \in Classes :
              Val(cv_result)[<<a, b>>] =
                 Cardinality({i \in Samples :
                                 InLabels[i] = a /\ HeldOutPrediction(i) = b})
        /\ in_retpred =>
              /\ ~IsNone(predictions)
              /\ \A i \in Samples :
                    /\ Val(predictions)[i] = HeldOutPrediction(i)
                    /\ Val(predictions)[i] # -1

\* two classes, shared origins, and a sample of class 0 predicted as class 1
C8_Witness ==
    /\ op = "nfoldcrossvalidation"
    /\ Completed
    /\ in_retpred
    /\ Cardinality(Classes) = 2
    /\ Len(pairs) = 2
    /\ \E i, j \in Samples : i # j /\ InOrigins[i] = InOrigins[j]
    /\ Val(cv_result)[<<0, 1>>] = 1
    /\ Val(cv_result)[<<1, 1>>] = 2
    /\ Val(cv_result)[<<1, 0>>] = 1

====
